---- MODULE Spec2Model ----
(***************************************************************************)
(* State-machine model of the AsterDex trading bot:                        *)
(*   - AsterdexService (src/services/asterdex.service.js): clock sync,     *)
(*     nonce generation, the signed-request pipeline and handleApiError.   *)
(*     The file holds two definitions of the class; `variant` says which   *)
(*     one the instance was constructed from (1: lines 6-531, with time    *)
(*     synchronisation; 2: lines 545-1095, without).                       *)
(*   - PositionService (src/scripts/check-balance.js, lines 33-285): the   *)
(*     tracked-position table, the timer-driven poll and closure handling. *)
(* Time is the local clock Date.now(), in milliseconds, counted from an    *)
(* arbitrary origin.                                                       *)
(***************************************************************************)
EXTENDS Integers, Sequences, FiniteSets, TLC

(***************************************************************************)
(* Program constants                                                       *)
(***************************************************************************)
minRequestInterval == 100
timeSyncInterval == 60000
Cooldown == 1000
\* Spacing of IEEE-754 doubles in [2^60, 2^61): nowMs * 1_000_000 lies there
\* for every Date.now() between 2006 and 2043, and JavaScript numbers are
\* doubles, so the sum nowMs * 1_000_000 + _i is rounded to a multiple of it.
NonceUlp == 256

(***************************************************************************)
(* Bounds of the model                                                     *)
(***************************************************************************)
MaxCalls == 2        \* signedRequest invocations in one behaviour
MaxTicks == 3        \* clock advances in one behaviour
StartTime == 100000  \* Date.now() at construction (far above timeSyncInterval)
TickShort == 1       \* a short clock advance
TickLong == 60000    \* a long clock advance
SkewMag == 150       \* magnitude of the exchange clock's skew

Symbols == {"ADAUSDT", "TAOUSDT"}   \* symbols of config.trading.allowedSymbols
Cycles == {1, 2}        \* checkPositions cycles that may be in flight together
MaxAdds == 2            \* addOpenPosition calls in one behaviour
MaxPolls == 2           \* timer ticks in one behaviour
Reqs == {1, 2}          \* signedRequest invocations that may be in flight together
Skews == {0 - SkewMag, 0}
MaxNonces == 3          \* direct getNonce calls in one behaviour
Offsets == {0 - TickShort, 0}   \* offsets a sync may store between getNonce calls

VARIABLES
  variant,           \* which class definition the instance comes from
  now,               \* Date.now()
  ticks,             \* clock advances so far (bounds the behaviour)
  serverTimeOffset, lastTimeSyncAt, lastRequestTime, _lastMs, _i,
  rq,                \* rq[r]: the r-th in-flight signedRequest invocation
  calls,             \* signedRequest invocations so far
  nonceLog,          \* every value getNonce has returned, in order
  prev,              \* the signedRequest invocation that returned last
  dryRun,            \* config.trading.dryRun
  openPositions,     \* the Map symbol -> position, as its set of entries
  closedPositions,   \* the history list
  monitoringInterval,\* TRUE when the timer handle is set (not null)
  timers,            \* setInterval timers that are live
  cyc,               \* cyc[c]: the c-th in-flight checkPositions cycle
  adds,              \* addOpenPosition calls so far
  polls,             \* timer ticks so far
  wire,              \* the request signedRequest is building: objects, strings, what is sent
  lev,               \* the setLeverage call in progress
  brk,               \* the setTakeProfit / setStopLoss call in progress
  calc,              \* the calculatePositionParameters call in progress
  sel                \* the handlePositionClosed exit-price lookup in progress

svcVars == <<variant, serverTimeOffset, lastTimeSyncAt, lastRequestTime, _lastMs, _i>>
reqVars == <<rq, calls, nonceLog, prev>>
reqSide == <<now, ticks, svcVars, reqVars>>
posVars == <<dryRun, openPositions, closedPositions, monitoringInterval, timers, cyc,
             adds, polls>>
msgVars == <<wire, lev>>
ordVars == <<brk, calc, sel>>
vars == <<reqSide, posVars, msgVars, ordVars>>

(***************************************************************************)
(* Errors.  An axios error carries .response (status, data.code) when the  *)
(* exchange answered; otherwise it is a transport or a signing error.      *)
(***************************************************************************)
NoErr == [kind |-> "none", status |-> 0, code |-> 0, src |-> "none"]
Codes == {-1000, -1021, -429, -2019, -4131, -1}
Statuses == {400, 429}
NetErr(src) == [kind |-> "net", status |-> 0, code |-> 0, src |-> src]
RespErr(src, st, c) == [kind |-> "resp", status |-> st, code |-> c, src |-> src]
SignErr == [kind |-> "sign", status |-> 0, code |-> 0, src |-> "sign"]
NewErr(msg) == [kind |-> msg, status |-> 0, code |-> 0, src |-> "handler"]
AxiosErrs(src) == {NetErr(src)} \cup {RespErr(src, st, c) : st \in Statuses, c \in Codes}

IsDesync(e) == e.kind = "resp" /\ e.code \in {-1000, -1021}
IsRateLimited(e) == e.kind = "resp" /\ (e.code = -429 \/ e.status = 429)

(***************************************************************************)
(* getServerTime / getNonce                                                *)
(***************************************************************************)
getServerTime(t, off) == t + off

\* variant 1 reads the synchronised clock, variant 2 reads Date.now()
NonceClock(v, t, off) == IF v = 1 THEN getServerTime(t, off) ELSE t

\* nowMs * 1_000_000 + i as a double: the product keeps the order of nowMs
\* (its steps of 10^6 exceed NonceUlp), the sum is rounded to NonceUlp.
NonceValue(nowMs, i) ==
  [ms |-> nowMs, lo |-> ((i + NonceUlp \div 2) \div NonceUlp) * NonceUlp]

NonceLess(a, b) == a.ms < b.ms \/ (a.ms = b.ms /\ a.lo < b.lo)

\* getNonce: the new _lastMs, the new _i and the value returned
getNonce(nowMs, lastMs, i) ==
  IF nowMs = lastMs
    THEN [lastMs |-> lastMs, i |-> i + 1, nonce |-> NonceValue(nowMs, i + 1)]
    ELSE [lastMs |-> nowMs, i |-> 0, nonce |-> NonceValue(nowMs, 0)]

(***************************************************************************)
(* One signedRequest invocation                                            *)
(***************************************************************************)
IdleReq ==
  [pc |-> "idle", T0 |-> 0, wakeAt |-> 0,
   failure |-> NoErr,     \* the error raised inside signedRequest's try block
   failedAt |-> 0,        \* when it was raised
   raised |-> NoErr,      \* the error handleApiError was called with
   thrown |-> NoErr,      \* the error signedRequest rejected with
   outcome |-> "none",    \* "resolved" or "rejected" once it has settled
   gateAt |-> 0, dispatchAt |-> 0, settledAt |-> 0,
   afterPrev |-> FALSE,   \* invoked at the instant the previous one returned
   nNonce |-> 0, nDispatch |-> 0, nProbe |-> 0, nForced |-> 0,
   nForcedDone |-> 0, nHandled |-> 0, nCooldown |-> 0,
   nSync |-> 0,           \* syncServerTime calls of this invocation that succeeded
   Ts |-> 0]              \* response.serverTime of the last of them

NoPrev == [valid |-> FALSE, dispatched |-> FALSE, dispatchAt |-> 0, returnedAt |-> 0]

(***************************************************************************)
(* PositionService state                                                   *)
(***************************************************************************)
\* a property of a position object: <<>> when the object has no such
\* property, <<v>> when it holds v
Absent == <<>>
NoEntry == [symbol |-> "none", id |-> 0, ord |-> 0, unrealisedPnl |-> Absent]

IdleCyc ==
  [pc |-> "idle",
   cur |-> NoEntry,       \* the loop variables [symbol, trackedPosition]
   startSet |-> {},       \* the symbols tracked when the cycle started
   checked |-> {},        \* the symbols whose position this cycle has fetched
   exchangePosition |-> Absent,  \* <<unRealizedProfit>> of the non-zero position found
   outcome |-> "none"]    \* "resolved" or "rejected" once checkPositions settled

(***************************************************************************)
(* The request signedRequest builds.  A JavaScript object is the sequence  *)
(* of its [key, value] pairs in insertion order; a string of k=v parts     *)
(* joined by & is the sequence of its parts.                               *)
(***************************************************************************)
NoNonce == [ms |-> 0, lo |-> 0]
Pair(k, v) == [k |-> k, v |-> v]
\* values: a plain string, the text of a nonce, a signature over a string
Val(str) == [s |-> str, n |-> NoNonce, o |-> <<>>]
NonceText(nonce) == [s |-> "nonce", n |-> nonce, o |-> <<>>]
SigText(over) == [s |-> "sig", n |-> NoNonce, o |-> over]

IdleWire ==
  [pc |-> "idle", method |-> "GET",
   given |-> <<>>,            \* the caller's params as they were at the call
   heap |-> <<<<>>, <<>>>>,   \* heap[1]: the caller's params object; heap[2]: allParams
   ref |-> 1,                 \* the object allParams / signedParams refers to
   nonce |-> NoNonce,         \* the nonce drawn for this invocation
   signedOver |-> <<>>,       \* the string given to createWeb3Signature as msg
   query |-> <<>>,            \* the query string of the URL handed to axios
   hasBody |-> FALSE,         \* requestConfig.data is set
   body |-> <<>>]             \* requestConfig.data

\* setLeverage: the error its signedRequest failed with (message included),
\* whether the forced syncServerTime succeeded, the message of the error
\* signedRequest rejected with, and what setLeverage did
NoLevErr == [kind |-> "none", status |-> 0, code |-> 0, src |-> "none", msg |-> <<>>]
IdleLev == [pc |-> "idle", err |-> NoLevErr, syncOk |-> FALSE, thrown |-> <<>>,
            result |-> "none"]

\* setTakeProfit / setStopLoss: the arguments, the params objects handed to
\* signedRequest('POST', '/fapi/v3/order', params) and what the method did
IdleBrk == [pc |-> "idle", method |-> "none", entrySide |-> "none", price |-> 0,
            quantity |-> 0, submitted |-> <<>>, result |-> "none"]

\* A JavaScript number is modelled as the exact fraction n / d (d > 0), kept
\* in lowest terms; Infinity is 1 / 0.
Rat(n, d) == [n |-> n, d |-> d]
Zero == Rat(0, 1)
Infinity == Rat(1, 0)

\* calculatePositionParameters: its arguments, the configuration it reads and
\* its outcome
NoResult == [entryPrice |-> Zero, quantity |-> Zero, positionSize |-> Zero,
             requiredMargin |-> Zero, stopLoss |-> Zero, takeProfit |-> Zero,
             riskAmount |-> Zero, clamped |-> FALSE]
IdleCalc == [pc |-> "idle", balance |-> Zero, entryPrice |-> Zero, direction |-> "none",
             symbolInfo |-> [tickSize |-> Zero, stepSize |-> Zero, minQty |-> Zero,
                             maxQty |-> Zero, pricePrecision |-> 4],
             leverage |-> 1, rounding |-> "none",
             outcome |-> "none", error |-> "none", result |-> NoResult]

\* handlePositionClosed: the tracked direction, the fetched trades and the
\* exit price taken from them
IdleSel == [pc |-> "idle", direction |-> "none", entryPrice |-> 0, trades |-> <<>>,
            closeTrade |-> 0,     \* index in trades of the trade find returned, 0: undefined
            exitPrice |-> 0]

\* the state after construction: vs are the class definitions and ds the
\* dryRun settings the instance may have
InitWith(vs, ds) ==
  /\ variant \in vs
  /\ now = StartTime
  /\ ticks = 0
  /\ serverTimeOffset = 0
  /\ lastTimeSyncAt = 0
  /\ lastRequestTime = 0
  /\ _lastMs = 0
  /\ _i = 0
  /\ rq = [r \in Reqs |-> IdleReq]
  /\ calls = 0
  /\ nonceLog = <<>>
  /\ prev = NoPrev
  /\ dryRun \in ds
  /\ openPositions = {}
  /\ closedPositions = <<>>
  /\ monitoringInterval = FALSE
  /\ timers = 0
  /\ cyc = [c \in Cycles |-> IdleCyc]
  /\ adds = 0
  /\ polls = 0
  /\ wire = IdleWire
  /\ lev = IdleLev
  /\ brk = IdleBrk
  /\ calc = IdleCalc
  /\ sel = IdleSel

Init == InitWith({1, 2}, {FALSE})
InitPos == InitWith({1}, BOOLEAN)

(***************************************************************************)
(* Pure steps of the pipeline                                              *)
(***************************************************************************)
\* faulty variant of NeedsSync: the comparison is >= instead of >
NeedsSyncInclusive(v, t, lastSync) == v = 1 /\ t - lastSync >= timeSyncInterval

\* ensureTimeSync's condition; variant 2 has no time synchronisation
NeedsSync(v, t, lastSync) == v = 1 /\ t - lastSync > timeSyncInterval

\* faulty variant of SyncOffset: the round trip is not halved
SyncOffsetAtReceipt(startTime, endTime, serverTime) == serverTime - endTime

\* syncServerTime: serverTime - floor((startTime + endTime) / 2)
SyncOffset(startTime, endTime, serverTime) == serverTime - ((startTime + endTime) \div 2)

\* the rate gate: how long signedRequest suspends (0: not at all)
GateDelay(t, last) ==
  IF t - last < minRequestInterval THEN minRequestInterval - (t - last) ELSE 0

\* faulty variant of Classify: the rate-limit branch is missing
ClassifyNoRateLimit(v, e) ==
  IF e.kind # "resp" THEN "rethrow"
  ELSE IF v = 1 /\ e.code \in {-1000, -1021} THEN "resync"
  ELSE IF v = 2 /\ e.code = -1021 THEN "Timestamp sync error"
  ELSE IF e.code = -2019 THEN "Insufficient margin"
  ELSE IF e.code = -4131 THEN "Market order rejected"
  ELSE "API Error"

\* handleApiError's branch for error e
Classify(v, e) ==
  IF e.kind # "resp" THEN "rethrow"
  ELSE IF v = 1 /\ e.code \in {-1000, -1021} THEN "resync"
  ELSE IF v = 2 /\ e.code = -1021 THEN "Timestamp sync error"
  ELSE IF e.code = -429 \/ e.status = 429 THEN "cooldown"
  ELSE IF e.code = -2019 THEN "Insufficient margin"
  ELSE IF e.code = -4131 THEN "Market order rejected"
  ELSE "API Error"

\* what handleApiError throws once the forced syncServerTime has settled: the
\* `throw new Error('Time sync error ... resynced')` sits inside the try whose
\* catch rethrows everything as 'Time sync failed'
ResyncError(ok) == NewErr("Time sync failed")

\* the times the exchange may report for a probe sent at startTime and
\* answered at endTime
ServerTimes(startTime, endTime) == {t + k : t \in {startTime, endTime}, k \in Skews}

(***************************************************************************)
(* Building blocks of the actions                                          *)
(***************************************************************************)
\* a component called inside the try block of signedRequest throws e
Fail(rec, e) == [rec EXCEPT !.failure = e, !.failedAt = now]

Settle(rec, how, e) ==
  [rec EXCEPT !.pc = "done", !.outcome = how, !.thrown = e, !.settledAt = now]

\* lines 141-143 (variant 2: 654, 585): stamp lastRequestTime, draw the nonce,
\* start signing
Stamp(r, rec, off) ==
  LET g == getNonce(NonceClock(variant, now, off), _lastMs, _i) IN
  /\ lastRequestTime' = now
  /\ _lastMs' = g.lastMs
  /\ _i' = g.i
  /\ nonceLog' = Append(nonceLog, g.nonce)
  /\ rq' = [rq EXCEPT ![r] = [rec EXCEPT !.pc = "sign", !.gateAt = now, !.nNonce = @ + 1]]

\* faulty variant of Gate: the nonce is drawn without waiting for the gate
GateNoWait(r, rec, off) == Stamp(r, rec, off)

\* lines 136-140 (variant 2: 649-653): the rate gate
Gate(r, rec, off) ==
  LET d == GateDelay(now, lastRequestTime) IN
  IF d > 0
    THEN /\ rq' = [rq EXCEPT ![r] = [rec EXCEPT !.pc = "gatewait", !.wakeAt = now + d]]
         /\ UNCHANGED <<lastRequestTime, _lastMs, _i, nonceLog>>
    ELSE Stamp(r, rec, off)

\* signedRequest's catch block calls handleApiError(e) (lines 187-188)
Handled(rec, e) == [rec EXCEPT !.raised = e, !.nHandled = @ + 1]

\* handleApiError (lines 211-249; variant 2: 725-756) up to its first await,
\* for the branch c of error e: it throws at once, which settles signedRequest,
\* or it awaits the forced syncServerTime or the cooldown timer
HandlerStep(rec, e, c) ==
  IF c = "rethrow" THEN Settle(rec, "rejected", e)
  ELSE IF c = "resync"
    THEN [rec EXCEPT !.pc = "resync", !.T0 = now, !.nForced = @ + 1]
  ELSE IF c = "cooldown"
    THEN [rec EXCEPT !.pc = "cooldown", !.wakeAt = now + Cooldown, !.nCooldown = @ + 1]
  ELSE Settle(rec, "rejected", NewErr(c))

\* faulty variant of Catch: a generic exchange error is logged and swallowed, so
\* signedRequest resolves
CatchSwallow(rec, e) ==
  IF Classify(variant, e) = "API Error"
    THEN Settle(Handled(rec, e), "resolved", NoErr)
    ELSE HandlerStep(Handled(rec, e), e, Classify(variant, e))

\* faulty variant of Catch: a desync error makes signedRequest sign and dispatch again
CatchRetry(rec, e) ==
  IF Classify(variant, e) = "resync"
    THEN [Handled(rec, e) EXCEPT !.pc = "sign"]
    ELSE HandlerStep(Handled(rec, e), e, Classify(variant, e))

\* lines 187-190: the record of an invocation after its catch block caught e
Catch(rec, e) == HandlerStep(Handled(rec, e), e, Classify(variant, e))

(***************************************************************************)
(* Actions of signedRequest                                                *)
(***************************************************************************)
\* a caller invokes signedRequest: ensureTimeSync starts a probe or not
Call(r) ==
  /\ UNCHANGED <<posVars, msgVars, ordVars>>
  /\ rq[r].pc = "idle"
  /\ calls < MaxCalls
  /\ calls' = calls + 1
  /\ LET rec == [IdleReq EXCEPT !.afterPrev = prev.valid /\ prev.returnedAt = now]
     IN  IF NeedsSync(variant, now, lastTimeSyncAt)
           THEN /\ rq' = [rq EXCEPT ![r] = [rec EXCEPT !.pc = "probe", !.T0 = now,
                                                        !.nProbe = @ + 1]]
                /\ UNCHANGED <<lastRequestTime, _lastMs, _i, nonceLog>>
           ELSE Gate(r, rec, serverTimeOffset)
  /\ UNCHANGED <<variant, now, ticks, serverTimeOffset, lastTimeSyncAt, prev>>

\* the probe of ensureTimeSync answers: syncServerTime stores the offset and
\* signedRequest goes on to the rate gate
ProbeOk(r) ==
  /\ UNCHANGED <<posVars, msgVars, ordVars>>
  /\ rq[r].pc = "probe"
  /\ \E ts \in ServerTimes(rq[r].T0, now) :
       /\ serverTimeOffset' = SyncOffset(rq[r].T0, now, ts)
       /\ lastTimeSyncAt' = now
       /\ Gate(r, [rq[r] EXCEPT !.nSync = @ + 1, !.Ts = ts], serverTimeOffset')
  /\ UNCHANGED <<variant, now, ticks, calls, prev>>

\* faulty variant of ProbeFail: a failed probe falls back to offset 0 and
\* marks the offset fresh
ProbeFailFallback(r) ==
  /\ UNCHANGED <<posVars, msgVars, ordVars>>
  /\ rq[r].pc = "probe"
  /\ \E e \in AxiosErrs("probe") : rq' = [rq EXCEPT ![r] = Catch(Fail(rq[r], e), e)]
  /\ serverTimeOffset' = 0
  /\ lastTimeSyncAt' = now
  /\ UNCHANGED <<variant, now, ticks, lastRequestTime, _lastMs, _i, calls, nonceLog, prev>>

\* the probe of ensureTimeSync fails: syncServerTime rethrows, signedRequest
\* catches
ProbeFail(r) ==
  /\ UNCHANGED <<posVars, msgVars, ordVars>>
  /\ rq[r].pc = "probe"
  /\ \E e \in AxiosErrs("probe") : rq' = [rq EXCEPT ![r] = Catch(Fail(rq[r], e), e)]
  /\ UNCHANGED <<now, ticks, svcVars, calls, nonceLog, prev>>

\* the rate gate's timer fires
GateWake(r) ==
  /\ UNCHANGED <<posVars, msgVars, ordVars>>
  /\ rq[r].pc = "gatewait"
  /\ now >= rq[r].wakeAt
  /\ Stamp(r, rq[r], serverTimeOffset)
  /\ UNCHANGED <<variant, now, ticks, serverTimeOffset, lastTimeSyncAt, calls, prev>>

\* the signature is ready: the request is dispatched
SignOk(r) ==
  /\ UNCHANGED <<posVars, msgVars, ordVars>>
  /\ rq[r].pc = "sign"
  /\ rq' = [rq EXCEPT ![r] = [@ EXCEPT !.pc = "http", !.dispatchAt = now,
                                       !.nDispatch = @ + 1]]
  /\ UNCHANGED <<now, ticks, svcVars, calls, nonceLog, prev>>

\* createWeb3Signature throws
SignFail(r) ==
  /\ UNCHANGED <<posVars, msgVars, ordVars>>
  /\ rq[r].pc = "sign"
  /\ rq' = [rq EXCEPT ![r] = Catch(Fail(rq[r], SignErr), SignErr)]
  /\ UNCHANGED <<now, ticks, svcVars, calls, nonceLog, prev>>

\* the exchange answers 2xx: signedRequest resolves
HttpOk(r) ==
  /\ UNCHANGED <<posVars, msgVars, ordVars>>
  /\ rq[r].pc = "http"
  /\ rq' = [rq EXCEPT ![r] = Settle(@, "resolved", NoErr)]
  /\ UNCHANGED <<now, ticks, svcVars, calls, nonceLog, prev>>

\* the dispatch fails: transport error or an error answer of the exchange
HttpFail(r) ==
  /\ UNCHANGED <<posVars, msgVars, ordVars>>
  /\ rq[r].pc = "http"
  /\ \E e \in AxiosErrs("http") : rq' = [rq EXCEPT ![r] = Catch(Fail(rq[r], e), e)]
  /\ UNCHANGED <<now, ticks, svcVars, calls, nonceLog, prev>>

\* the forced syncServerTime of handleApiError answers
ResyncOk(r) ==
  /\ UNCHANGED <<posVars, msgVars, ordVars>>
  /\ rq[r].pc = "resync"
  /\ \E ts \in ServerTimes(rq[r].T0, now) :
       /\ serverTimeOffset' = SyncOffset(rq[r].T0, now, ts)
       /\ lastTimeSyncAt' = now
       /\ rq' = [rq EXCEPT ![r] = Settle([@ EXCEPT !.nForcedDone = @ + 1,
                                                   !.nSync = @ + 1, !.Ts = ts],
                                          "rejected", ResyncError(TRUE))]
  /\ UNCHANGED <<variant, now, ticks, lastRequestTime, _lastMs, _i, calls, nonceLog, prev>>

\* the forced syncServerTime of handleApiError fails
ResyncFail(r) ==
  /\ UNCHANGED <<posVars, msgVars, ordVars>>
  /\ rq[r].pc = "resync"
  /\ rq' = [rq EXCEPT ![r] = Settle([@ EXCEPT !.nForcedDone = @ + 1],
                                     "rejected", ResyncError(FALSE))]
  /\ UNCHANGED <<now, ticks, svcVars, calls, nonceLog, prev>>

\* the cooldown timer of handleApiError fires
CooldownWake(r) ==
  /\ UNCHANGED <<posVars, msgVars, ordVars>>
  /\ rq[r].pc = "cooldown"
  /\ now >= rq[r].wakeAt
  /\ rq' = [rq EXCEPT ![r] = Settle(@, "rejected", NewErr("Rate limit exceeded"))]
  /\ UNCHANGED <<now, ticks, svcVars, calls, nonceLog, prev>>

\* the caller receives the settled promise
Return(r) ==
  /\ UNCHANGED <<posVars, msgVars, ordVars>>
  /\ rq[r].pc = "done"
  /\ prev' = [valid |-> TRUE, dispatched |-> rq[r].nDispatch > 0,
              dispatchAt |-> rq[r].dispatchAt, returnedAt |-> now]
  /\ rq' = [rq EXCEPT ![r] = IdleReq]
  /\ UNCHANGED <<now, ticks, svcVars, calls, nonceLog>>

\* the local clock advances: by a short step, up to a pending timer, or by a
\* long quiet period while no signedRequest is in flight
Deadlines == {rq[r].wakeAt - now : r \in {x \in Reqs : rq[x].pc \in {"gatewait", "cooldown"}
                                                        /\ rq[x].wakeAt > now}}
Quiet == IF \A r \in Reqs : rq[r].pc = "idle" THEN {TickLong} ELSE {}
Tick ==
  /\ UNCHANGED <<posVars, msgVars, ordVars>>
  /\ ticks < MaxTicks
  /\ \E d \in {TickShort} \cup Deadlines \cup Quiet : now' = now + d
  /\ ticks' = ticks + 1
  /\ UNCHANGED <<svcVars, reqVars>>

ReqStep(r) ==
  \/ Call(r) \/ ProbeOk(r) \/ ProbeFail(r) \/ GateWake(r)
  \/ SignOk(r) \/ SignFail(r) \/ HttpOk(r) \/ HttpFail(r)
  \/ ResyncOk(r) \/ ResyncFail(r) \/ CooldownWake(r) \/ Return(r)

\* one caller that awaits each signedRequest before issuing the next
Next == Tick \/ ReqStep(1)
Spec == Init /\ [][Next]_vars

\* callers whose signedRequest invocations overlap: while invocation 1 runs,
\* a second caller (the reconciler's poll, an order call) invokes
\* signedRequest too; the exchange answers the second one without error
NextConc ==
  \/ Tick \/ ReqStep(1)
  \/ Call(2) \/ ProbeOk(2) \/ GateWake(2) \/ SignOk(2) \/ HttpOk(2) \/ Return(2)

\* the instance right after an earlier signedRequest went through at
\* StartTime (synced, stamped, one nonce drawn, answered and returned);
\* calls counts the invocations from here on
InitConc ==
  /\ variant \in {1, 2}
  /\ now = StartTime
  /\ ticks = 0
  /\ serverTimeOffset = 0
  /\ lastTimeSyncAt = (IF variant = 1 THEN StartTime ELSE 0)
  /\ lastRequestTime = StartTime
  /\ _lastMs = StartTime
  /\ _i = 0
  /\ rq = [r \in Reqs |-> IdleReq]
  /\ calls = 0
  /\ nonceLog = <<getNonce(StartTime, 0, 0).nonce>>
  /\ prev = [valid |-> TRUE, dispatched |-> TRUE, dispatchAt |-> StartTime,
             returnedAt |-> StartTime]
  /\ dryRun = FALSE
  /\ openPositions = {}
  /\ closedPositions = <<>>
  /\ monitoringInterval = FALSE
  /\ timers = 0
  /\ cyc = [c \in Cycles |-> IdleCyc]
  /\ adds = 0
  /\ polls = 0
  /\ wire = IdleWire
  /\ lev = IdleLev
  /\ brk = IdleBrk
  /\ calc = IdleCalc
  /\ sel = IdleSel

SpecConc == InitConc /\ [][NextConc]_vars

\* C31: two signedRequest invocations that overlap in time never pass the
\* rate gate within the same minRequestInterval window, so their dispatches
\* are at least minRequestInterval apart
C31_OverlappingDispatchesSpaced ==
  (rq[1].nDispatch > 0 /\ rq[2].nDispatch > 0) =>
     \/ rq[1].gateAt - rq[2].gateAt >= minRequestInterval
     \/ rq[2].gateAt - rq[1].gateAt >= minRequestInterval

(***************************************************************************)
(* getNonce on its own: calls at any local time, with syncs that change    *)
(* serverTimeOffset in between                                             *)
(***************************************************************************)
\* getNonce is called (by signedRequest or createWeb3Signature)
NonceCall ==
  /\ calls < MaxNonces
  /\ calls' = calls + 1
  /\ LET g == getNonce(NonceClock(variant, now, serverTimeOffset), _lastMs, _i) IN
       /\ _lastMs' = g.lastMs
       /\ _i' = g.i
       /\ nonceLog' = Append(nonceLog, g.nonce)
  /\ UNCHANGED <<variant, now, ticks, serverTimeOffset, lastTimeSyncAt, lastRequestTime,
                 rq, prev, posVars, msgVars, ordVars>>

\* the local clock advances by a millisecond
NonceClockStep ==
  /\ ticks < MaxTicks
  /\ ticks' = ticks + 1
  /\ now' = now + TickShort
  /\ UNCHANGED <<svcVars, reqVars, posVars, msgVars, ordVars>>

\* a syncServerTime stores another offset
NonceOffsetStep ==
  /\ variant = 1
  /\ \E off \in Offsets \ {serverTimeOffset} :
       serverTimeOffset' = off /\ lastTimeSyncAt' = now
  /\ UNCHANGED <<variant, now, ticks, lastRequestTime, _lastMs, _i, reqVars, posVars,
                 msgVars, ordVars>>

NextNonce == NonceCall \/ NonceClockStep \/ NonceOffsetStep
SpecNonce == Init /\ [][NextNonce]_vars

(***************************************************************************)
(* Building, signing and sending one request                               *)
(***************************************************************************)
Methods == {"GET", "POST", "PUT", "DELETE"}
userAddress == Val("0xUSER")
signerAddress == Val("0xSIGNER")

\* params objects a caller may pass
ParamSets ==
  { <<>>,
    <<Pair("symbol", Val("ADAUSDT"))>>,
    <<Pair("symbol", Val("ADAUSDT")), Pair("leverage", Val("5"))>>,
    <<Pair("symbol", Val("ADA/USDT"))>> }

\* the order of the keys as strings (Array.prototype.sort without comparator)
KeyRank(k) ==
  CASE k = "leverage" -> 1 [] k = "nonce" -> 2 [] k = "signature" -> 3
    [] k = "signer" -> 4 [] k = "symbol" -> 5 [] k = "user" -> 6

ObjKeys(obj) == {obj[i].k : i \in DOMAIN obj}
PairsOf(obj) == {obj[i] : i \in DOMAIN obj}

\* obj[k] = v: an existing key keeps its place, a new key goes last
ObjSet(obj, k, v) ==
  IF k \in ObjKeys(obj)
    THEN [i \in DOMAIN obj |-> IF obj[i].k = k THEN Pair(k, v) ELSE obj[i]]
    ELSE Append(obj, Pair(k, v))

\* Object.keys(obj).sort().map(key => `${key}=${obj[key]}`)
SortedPairs(obj) ==
  CHOOSE sq \in [1..Len(obj) -> PairsOf(obj)] :
    /\ \A i \in 1..Len(obj) : \A j \in 1..Len(obj) :
         i < j => KeyRank(sq[i].k) < KeyRank(sq[j].k)
    /\ \A q \in PairsOf(obj) : \E i \in 1..Len(obj) : sq[i] = q

\* encodeURIComponent: letters, digits and - _ . ! ~ * ' ( ) are kept
encodeURIComponent(val) ==
  IF val.s = "ADA/USDT" THEN [val EXCEPT !.s = "ADA%2FUSDT"] ELSE val

EncodedPairs(obj) == [i \in DOMAIN obj |-> Pair(obj[i].k, encodeURIComponent(obj[i].v))]

\* the three parts signedRequest / createWeb3Signature add to the parameters
AuthPairs(nonce) ==
  <<Pair("nonce", NonceText(nonce)), Pair("user", userAddress),
    Pair("signer", signerAddress)>>

\* { ...params, nonce, user, signer } written into object obj
WithAuth(obj, nonce) ==
  ObjSet(ObjSet(ObjSet(obj, "nonce", NonceText(nonce)), "user", userAddress),
         "signer", signerAddress)

\* faulty variant of SpreadInto: the three parts are assigned into the
\* caller's object (Object.assign(params, ...)) instead of a copy
AssignInto(callerObj) == callerObj

\* the object the spread { ...params, ... } of createWeb3Signature creates
SpreadInto(callerObj) == callerObj + 1

\* signedRequest(m, ps) up to the await of the signature: the nonce is drawn
\* and the string to sign is built
WireCall(m, ps) ==
  /\ wire.pc = "idle"
  /\ calls < MaxNonces
  /\ calls' = calls + 1
  /\ LET g == getNonce(NonceClock(variant, now, serverTimeOffset), _lastMs, _i)
         h1 == <<ps, <<>>>>
         a == SpreadInto(1)
         h2 == [h1 EXCEPT ![a] = WithAuth(h1[1], g.nonce)]
     IN  /\ _lastMs' = g.lastMs
         /\ _i' = g.i
         /\ nonceLog' = Append(nonceLog, g.nonce)
         /\ wire' =
              IF variant = 1
                THEN [IdleWire EXCEPT !.pc = "signing", !.method = m, !.given = ps,
                                      !.heap = h1, !.nonce = g.nonce,
                                      !.signedOver = h1[1] \o AuthPairs(g.nonce)]
                ELSE [IdleWire EXCEPT !.pc = "signing", !.method = m, !.given = ps,
                                      !.heap = h2, !.ref = a, !.nonce = g.nonce,
                                      !.signedOver = SortedPairs(h2[a])]
  /\ UNCHANGED <<variant, now, ticks, serverTimeOffset, lastTimeSyncAt, lastRequestTime,
                 rq, prev, posVars, lev, ordVars>>

\* the signature arrives: the request is completed and handed to axios
WireSigned ==
  /\ wire.pc = "signing"
  /\ LET sg == SigText(wire.signedOver)
         h == [wire.heap EXCEPT ![wire.ref] = ObjSet(@, "signature", sg)]
     IN  wire' =
           IF variant = 1
             THEN [wire EXCEPT !.pc = "sent",
                               !.query = wire.signedOver \o <<Pair("signature", sg)>>]
           ELSE IF wire.method \in {"GET", "DELETE"}
             THEN [wire EXCEPT !.pc = "sent", !.heap = h,
                               !.query = EncodedPairs(h[wire.ref])]
           ELSE [wire EXCEPT !.pc = "sent", !.heap = h, !.hasBody = TRUE,
                             !.body = h[wire.ref]]
  /\ UNCHANGED <<reqSide, posVars, lev, ordVars>>

\* createWeb3Signature throws: nothing is sent
WireSignFail ==
  /\ wire.pc = "signing"
  /\ wire' = [wire EXCEPT !.pc = "failed"]
  /\ UNCHANGED <<reqSide, posVars, lev, ordVars>>

\* signedRequest settles and the caller goes on
WireReturn ==
  /\ wire.pc \in {"sent", "failed"}
  /\ wire' = IdleWire
  /\ UNCHANGED <<reqSide, posVars, lev, ordVars>>

NextWire ==
  \/ \E m \in Methods : \E ps \in ParamSets : WireCall(m, ps)
  \/ WireSigned \/ WireSignFail \/ WireReturn \/ NonceClockStep
SpecWire == Init /\ [][NextWire]_vars

(***************************************************************************)
(* setLeverage.  A message is the sequence of the pieces of its text.      *)
(***************************************************************************)
\* data.msg of the exchange's error answers
ExchangeMsgs ==
  { <<"leverage not modified">>, <<"No need to change leverage", ".">>,
    <<"Margin is insufficient.">> }

\* the errors the signed call of setLeverage may fail with
LevErrs ==
  {[kind |-> "net", status |-> 0, code |-> 0, src |-> "http",
    msg |-> <<"timeout of 10000ms exceeded">>],
   [kind |-> "sign", status |-> 0, code |-> 0, src |-> "sign",
    msg |-> <<"invalid private key">>]}
  \cup {[kind |-> "resp", status |-> st, code |-> c, src |-> "http", msg |-> m] :
          st \in Statuses, c \in Codes, m \in ExchangeMsgs}

\* error.message of a failed forced syncServerTime
SyncFailMsg == <<"Request failed with status code 503">>

\* String.prototype.includes for the two phrases setLeverage looks for
Includes(text, phrase) == \E i \in DOMAIN text : text[i] = phrase
MentionsNoChange(text) ==
  Includes(text, "leverage not modified") \/ Includes(text, "No need to change leverage")

\* faulty variant of ThrownText: the generic error does not quote the
\* exchange's message
ThrownTextNoQuote(v, e, ok) ==
  LET c == Classify(v, e) IN
  IF c = "rethrow" THEN e.msg
  ELSE IF c = "resync"
    THEN IF ok THEN <<"Time sync failed: ", "Time sync error: ">> \o e.msg
                    \o <<". Time has been resynced, please retry.">>
               ELSE <<"Time sync failed: ">> \o SyncFailMsg
  ELSE IF c = "cooldown" THEN <<"Rate limit exceeded, please retry">>
  ELSE IF c = "API Error" THEN <<"API Error", " (Code)">>
  ELSE <<c, ": ">> \o e.msg

\* the message of the error handleApiError throws for error e (ok: the forced
\* syncServerTime succeeded), which signedRequest rejects with
ThrownText(v, e, ok) ==
  LET c == Classify(v, e) IN
  IF c = "rethrow" THEN e.msg
  ELSE IF c = "resync"
    THEN IF ok THEN <<"Time sync failed: ", "Time sync error: ">> \o e.msg
                    \o <<". Time has been resynced, please retry.">>
               ELSE <<"Time sync failed: ">> \o SyncFailMsg
  ELSE IF c = "cooldown" THEN <<"Rate limit exceeded, please retry">>
  ELSE IF c = "API Error" THEN <<"API Error: ">> \o e.msg \o <<" (Code)">>
  ELSE <<c, ": ">> \o e.msg

\* setLeverage is called and awaits its signedRequest
LevCall ==
  /\ lev.pc = "idle"
  /\ lev' = [IdleLev EXCEPT !.pc = "await"]
  /\ UNCHANGED <<reqSide, posVars, wire, ordVars>>

\* the signed call resolves: setLeverage returns the response
LevOk ==
  /\ lev.pc = "await"
  /\ lev' = [lev EXCEPT !.pc = "done", !.result = "response"]
  /\ UNCHANGED <<reqSide, posVars, wire, ordVars>>

\* the signed call fails with e and signedRequest rejects with what
\* handleApiError throws: the catch of setLeverage returns {leverage, symbol}
\* or rethrows
LevFail ==
  /\ lev.pc = "await"
  /\ \E e \in LevErrs : \E ok \in BOOLEAN :
       LET text == ThrownText(variant, e, ok) IN
       lev' = [lev EXCEPT !.pc = "done", !.err = e, !.syncOk = ok, !.thrown = text,
                          !.result = IF MentionsNoChange(text) THEN "success"
                                                               ELSE "rethrown"]
  /\ UNCHANGED <<reqSide, posVars, wire, ordVars>>

\* the caller goes on
LevReturn ==
  /\ lev.pc = "done"
  /\ lev' = IdleLev
  /\ UNCHANGED <<reqSide, posVars, wire, ordVars>>

NextLev == LevCall \/ LevOk \/ LevFail \/ LevReturn
SpecLev == Init /\ [][NextLev]_vars


(***************************************************************************)
(* setTakeProfit / setStopLoss                                             *)
(***************************************************************************)
Directions == {"LONG", "SHORT"}

\* Number.prototype.toString: the decimal text of a number
toString(x) == <<"text", x>>

getOrderSide(direction) == IF direction = "LONG" THEN "BUY" ELSE "SELL"

getPositionSide(mode, direction) == IF mode = "HEDGE" THEN direction ELSE "BOTH"

\* faulty variant of ClosingSide: the bracket goes in on the entry side
ClosingSideSame(side) == side

\* tpSide / slSide: side === 'BUY' ? 'SELL' : 'BUY'
ClosingSide(side) == IF side = "BUY" THEN "SELL" ELSE "BUY"

\* the params object of the conditional order
BracketParams(method, side, price, quantity, positionSide) ==
  [side |-> ClosingSide(side), positionSide |-> positionSide,
   type |-> IF method = "setTakeProfit" THEN "TAKE_PROFIT" ELSE "STOP",
   quantity |-> toString(quantity), price |-> toString(price),
   stopPrice |-> toString(price)]

\* the method is called for an entry in `direction` and awaits its one
\* signedRequest
BracketCall(method, direction, mode, price, quantity) ==
  /\ brk.pc = "idle"
  /\ LET side == getOrderSide(direction) IN
       brk' = [IdleBrk EXCEPT !.pc = "await", !.method = method, !.entrySide = side,
                              !.price = price, !.quantity = quantity,
                              !.submitted = <<BracketParams(method, side, price, quantity,
                                               getPositionSide(mode, direction))>>]
  /\ UNCHANGED <<reqSide, posVars, msgVars, calc, sel>>

\* signedRequest resolves: {orderId, price, type} is returned
BracketOk ==
  /\ brk.pc = "await"
  /\ brk' = [brk EXCEPT !.pc = "done", !.result = "returned"]
  /\ UNCHANGED <<reqSide, posVars, msgVars, calc, sel>>

\* signedRequest rejects: the catch logs and rethrows, nothing is retried
BracketFail ==
  /\ brk.pc = "await"
  /\ brk' = [brk EXCEPT !.pc = "done", !.result = "thrown"]
  /\ UNCHANGED <<reqSide, posVars, msgVars, calc, sel>>

\* the caller goes on
BracketReturn ==
  /\ brk.pc = "done"
  /\ brk' = IdleBrk
  /\ UNCHANGED <<reqSide, posVars, msgVars, calc, sel>>

NextBracket ==
  \* prices in ticks, quantities in lot steps
  \/ \E m \in {"setTakeProfit", "setStopLoss"} : \E d \in Directions :
       \E mode \in {"ONE_WAY", "HEDGE"} : \E p \in {1, 2} : \E q \in {1, 3} :
         BracketCall(m, d, mode, p, q)
  \/ BracketOk \/ BracketFail \/ BracketReturn
SpecBracket == Init /\ [][NextBracket]_vars

(***************************************************************************)
(* calculatePositionParameters, in exact arithmetic                        *)
(***************************************************************************)
RECURSIVE GCD(_, _)
GCD(a, b) == IF b = 0 THEN a ELSE GCD(b, a % b)
Norm(n, d) == LET g == GCD(IF n < 0 THEN 0 - n ELSE n, d) IN Rat(n \div g, d \div g)
LCM(a, b) == (a \div GCD(a, b)) * b
RAdd(a, b) == LET l == LCM(a.d, b.d) IN Norm(a.n * (l \div a.d) + b.n * (l \div b.d), l)
RSub(a, b) == LET l == LCM(a.d, b.d) IN Norm(a.n * (l \div a.d) - b.n * (l \div b.d), l)
RMul(a, b) ==
  LET x == Norm(a.n, b.d)
      y == Norm(b.n, a.d)
  IN  Rat(x.n * y.n, x.d * y.d)
RDiv(a, b) == RMul(a, IF b.n < 0 THEN Rat(0 - b.d, 0 - b.n) ELSE Rat(b.d, b.n))
\* a < b; Infinity is above every finite number
RLess(a, b) ==
  IF a.d = 0 THEN FALSE
  ELSE IF b.d = 0 THEN TRUE
  ELSE LET l == LCM(a.d, b.d) IN a.n * (l \div a.d) < b.n * (l \div b.d)
RAbs(a) == Rat(IF a.n < 0 THEN 0 - a.n ELSE a.n, a.d)
RFloor(a) == a.n \div a.d
\* x || fallback for a number x: 0 is falsy
OrElse(x, fallback) == IF x.n = 0 THEN fallback ELSE x

\* config.risk (src/unnamed/part_000, lines 40-45, with their defaults)
riskPercentage == Rat(5, 2)
takeProfitPercent == Rat(1, 2)
stopLossPercent == Rat(3, 10)
marginTolerance == Rat(1, 1000)

\* roundQuantity of utils/helpers.js: the quantity brought to a multiple of
\* the increment, downwards or to the nearest one
roundQuantity(quantity, increment, rounding) ==
  LET steps == RDiv(quantity, increment)
      k == IF rounding = "floor" THEN RFloor(steps) ELSE RFloor(RAdd(steps, Rat(1, 2)))
  IN  RMul(Rat(k, 1), increment)

\* roundPrice of utils/helpers.js: the price at `precision` decimals
RECURSIVE Pow10(_)
Pow10(k) == IF k = 0 THEN 1 ELSE 10 * Pow10(k - 1)
roundPrice(price, precision) ==
  Norm(RFloor(RAdd(RMul(price, Rat(Pow10(precision), 1)), Rat(1, 2))), Pow10(precision))

\* isValidNumber of utils/helpers.js: a finite number
isValidNumber(x) == x.d # 0

\* faulty variant of FinalMargin: the margin computed before quantity was
\* rounded and clamped
FinalMarginStale(quantity, entryPrice, leverage, requiredMargin) == requiredMargin

\* finalRequiredMargin (line 1196)
FinalMargin(quantity, entryPrice, leverage, requiredMargin) ==
  RDiv(RMul(quantity, entryPrice), Rat(leverage, 1))

\* the body of calculatePositionParameters after validation (lines 1126-1222)
Sizing(balance, entryPrice, direction, symbolInfo, leverage, rounding) ==
  LET hundred == Rat(100, 1)
      riskAmount == RMul(balance, RDiv(riskPercentage, hundred))
      stopLossPrice ==
        IF direction = "LONG"
          THEN RMul(entryPrice, RSub(Rat(1, 1), RDiv(stopLossPercent, hundred)))
          ELSE RMul(entryPrice, RAdd(Rat(1, 1), RDiv(stopLossPercent, hundred)))
      stopLossDistance == RAbs(RSub(entryPrice, stopLossPrice))
      positionSize1 == RMul(RDiv(riskAmount, stopLossDistance), entryPrice)
      requiredMargin1 == RDiv(positionSize1, Rat(leverage, 1))
      short == RLess(RAdd(balance, marginTolerance), requiredMargin1)
      positionSize2 == IF short THEN RMul(RMul(balance, Rat(995, 1000)), Rat(leverage, 1))
                                ELSE positionSize1
      requiredMargin2 == RDiv(positionSize2, Rat(leverage, 1))
      quantity1 == RDiv(positionSize2, entryPrice)
      takeProfitPrice ==
        IF direction = "LONG"
          THEN RMul(entryPrice, RAdd(Rat(1, 1), RDiv(takeProfitPercent, hundred)))
          ELSE RMul(entryPrice, RSub(Rat(1, 1), RDiv(takeProfitPercent, hundred)))
      tickSize == OrElse(symbolInfo.tickSize, Rat(1, 10000))
      minQty == OrElse(symbolInfo.minQty, Zero)
      maxQty == OrElse(symbolInfo.maxQty, Infinity)
      quantity2 == roundQuantity(quantity1, tickSize, rounding)
      low == RLess(quantity2, minQty)
      quantity3 == IF low THEN minQty ELSE quantity2
      positionSize3 == IF low THEN RMul(quantity3, entryPrice) ELSE positionSize2
      high == RLess(maxQty, quantity3)
      quantity4 == IF high THEN maxQty ELSE quantity3
      positionSize4 == IF high THEN RMul(quantity4, entryPrice) ELSE positionSize3
      finalRequiredMargin == FinalMargin(quantity4, entryPrice, leverage, requiredMargin2)
  IN  IF stopLossDistance.n <= 0
        THEN [outcome |-> "thrown", error |-> "Stop loss distance is zero or negative",
              result |-> NoResult]
      ELSE IF RLess(RAdd(balance, marginTolerance), finalRequiredMargin)
        THEN [outcome |-> "thrown", error |-> "Insufficient balance", result |-> NoResult]
      ELSE [outcome |-> "returned", error |-> "none",
            result |-> [entryPrice |-> roundPrice(entryPrice, symbolInfo.pricePrecision),
                        quantity |-> quantity4, positionSize |-> positionSize4,
                        requiredMargin |-> finalRequiredMargin,
                        stopLoss |-> roundPrice(stopLossPrice, symbolInfo.pricePrecision),
                        takeProfit |-> roundPrice(takeProfitPrice, symbolInfo.pricePrecision),
                        riskAmount |-> riskAmount, clamped |-> low \/ high]]

\* validation of the arguments (lines 1115-1124), then the sizing
calculatePositionParameters(balance, entryPrice, direction, symbolInfo, leverage, rounding) ==
  IF ~isValidNumber(balance) \/ balance.n <= 0
    THEN [outcome |-> "thrown", error |-> "Invalid balance", result |-> NoResult]
  ELSE IF ~isValidNumber(entryPrice) \/ entryPrice.n <= 0
    THEN [outcome |-> "thrown", error |-> "Invalid entry price", result |-> NoResult]
  ELSE IF direction \notin {"LONG", "SHORT"}
    THEN [outcome |-> "thrown", error |-> "Invalid direction", result |-> NoResult]
  ELSE Sizing(balance, entryPrice, direction, symbolInfo, leverage, rounding)

\* the arguments the function is called with
SymbolInfos ==
  { [tickSize |-> t, stepSize |-> st, minQty |-> lo, maxQty |-> hi, pricePrecision |-> 2] :
      t \in {Zero, Rat(1, 10), Rat(1, 1000)}, st \in {Rat(1, 1000), Rat(1, 1)},
      lo \in {Zero, Rat(50, 1)}, hi \in {Zero, Rat(5, 1)} }

CalcCall(balance, entryPrice, direction, symbolInfo, leverage, rounding) ==
  /\ calc.pc = "idle"
  /\ LET r == calculatePositionParameters(balance, entryPrice, direction, symbolInfo,
                                          leverage, rounding) IN
       calc' = [pc |-> "done", balance |-> balance, entryPrice |-> entryPrice,
                direction |-> direction, symbolInfo |-> symbolInfo, leverage |-> leverage,
                rounding |-> rounding, outcome |-> r.outcome, error |-> r.error,
                result |-> r.result]
  /\ UNCHANGED <<reqSide, posVars, msgVars, brk, sel>>

\* the caller goes on
CalcReturn ==
  /\ calc.pc = "done"
  /\ calc' = IdleCalc
  /\ UNCHANGED <<reqSide, posVars, msgVars, brk, sel>>

NextCalc ==
  \* config.risk.leverage (src/unnamed/part_000, line 42) is 2 or 20
  \/ \E b \in {Zero, Rat(10, 1), Rat(1000, 1)} : \E e \in {Rat(3, 1), Rat(100, 1)} :
       \E d \in Directions : \E si \in SymbolInfos : \E leverage \in {2, 20} :
         \E rounding \in {"floor", "nearest"} : CalcCall(b, e, d, si, leverage, rounding)
  \/ CalcReturn
SpecCalc == Init /\ [][NextCalc]_vars

(***************************************************************************)
(* handlePositionClosed: the exit price.  A trade of the userTrades answer *)
(* carries side and buyer (either may be missing), price as decimal text   *)
(* and its time.                                                           *)
(***************************************************************************)
\* the shapes of a trade: both fields, side only, buyer only
TradeKinds ==
  { [side |-> "BUY", buyer |-> "true"], [side |-> "SELL", buyer |-> "false"],
    [side |-> "BUY", buyer |-> "undefined"], [side |-> "SELL", buyer |-> "undefined"],
    [side |-> "undefined", buyer |-> "true"], [side |-> "undefined", buyer |-> "false"] }
Trades ==
  { [side |-> k.side, buyer |-> k.buyer, price |-> toString(pr), time |-> tm] :
      k \in TradeKinds, pr \in {10, 11}, tm \in {1, 2} }
\* the answers of getTradeHistory: up to two trades, in either order of time
TradeLists ==
  {<<>>} \cup {<<t>> : t \in Trades}
         \cup {q \in {<<t, u>> : t \in Trades, u \in Trades} : q[1].time # q[2].time}

\* parseFloat of the decimal text of a number
parseFloat(text) == text[2]

\* the predicate handed to trades.find (lines 185-196)
IsCloseTrade(direction, t) ==
  LET tradeSide == IF t.side = "undefined" THEN "" ELSE t.side
      isBuyer == (t.buyer = "true")
  IN  IF direction = "LONG" THEN tradeSide = "SELL" \/ ~isBuyer
                            ELSE tradeSide = "BUY" \/ isBuyer

\* faulty variant of Find: the last matching element
FindLast(direction, trades) ==
  LET hits == {i \in DOMAIN trades : IsCloseTrade(direction, trades[i])} IN
  IF hits = {} THEN 0 ELSE CHOOSE i \in hits : \A j \in hits : j <= i

\* Array.prototype.find: the first element the predicate accepts (0: undefined)
Find(direction, trades) ==
  LET hits == {i \in DOMAIN trades : IsCloseTrade(direction, trades[i])} IN
  IF hits = {} THEN 0 ELSE CHOOSE i \in hits : \A j \in hits : i <= j

\* handlePositionClosed is entered for a tracked position and awaits
\* getTradeHistory(symbol, 10)
CloseCall(direction, entryPrice) ==
  /\ sel.pc = "idle"
  /\ sel' = [IdleSel EXCEPT !.pc = "await", !.direction = direction, !.entryPrice = entryPrice]
  /\ UNCHANGED <<reqSide, posVars, msgVars, brk, calc>>

\* getTradeHistory resolves with trades: closeTrade and exitPrice are computed
CloseTrades(trades) ==
  /\ sel.pc = "await"
  /\ LET i == Find(sel.direction, trades) IN
       sel' = [sel EXCEPT !.pc = "done", !.trades = trades, !.closeTrade = i,
                          !.exitPrice = IF i # 0 THEN parseFloat(trades[i].price)
                                                 ELSE sel.entryPrice]
  /\ UNCHANGED <<reqSide, posVars, msgVars, brk, calc>>

\* the record has been appended and handlePositionClosed returns
CloseReturn ==
  /\ sel.pc = "done"
  /\ sel' = IdleSel
  /\ UNCHANGED <<reqSide, posVars, msgVars, brk, calc>>

NextClose ==
  \/ \E d \in Directions : \E entryPrice \in {9} : CloseCall(d, entryPrice)
  \/ \E ts \in TradeLists : CloseTrades(ts)
  \/ CloseReturn
SpecClose == Init /\ [][NextClose]_vars

(***************************************************************************)
(* PositionService: the Map openPositions and its live iterator            *)
(***************************************************************************)
\* An entry carries the rank of its key in the Map's insertion order (ord)
\* and the identity of the position object stored under it (id).
SymbolsOf(ops) == {e.symbol : e \in ops}

\* Map.prototype.set: an existing key keeps its place, a new one goes last
MapSet(ops, s, id, ord) ==
  IF s \in SymbolsOf(ops)
    THEN {IF e.symbol = s THEN [e EXCEPT !.id = id, !.unrealisedPnl = Absent] ELSE e : e \in ops}
    ELSE ops \cup {[symbol |-> s, id |-> id, ord |-> ord, unrealisedPnl |-> Absent]}

\* faulty variant of MapDelete: Map.prototype.clear
MapClear(ops, s) == {}

\* removeOpenPosition / Map.prototype.delete
MapDelete(ops, s) == {e \in ops : e.symbol # s}

\* faulty variant of addClosedPosition: the newest record goes first
addClosedPositionUnshift(cps, positionData) == <<positionData>> \o cps

\* addClosedPosition: Array.prototype.push
addClosedPosition(cps, positionData) == Append(cps, positionData)

\* the entries a Map iterator that last yielded rank `after` has still to yield
Ahead(ops, after) == {e \in ops : e.ord > after}
FirstOf(es) == CHOOSE e \in es : \A f \in es : e.ord <= f.ord

\* checkPositions returns: its promise resolves (lines 145-173 never rethrow)
Finish(rec, ops) ==
  [rec EXCEPT !.pc = "done", !.outcome = "resolved", !.cur = NoEntry]

\* the for-of loop takes its next entry and calls getOpenPositions(symbol),
\* or ends when the iterator is exhausted
Continue(rec, ops) ==
  IF Ahead(ops, rec.cur.ord) = {} THEN Finish(rec, ops)
  ELSE LET e == FirstOf(Ahead(ops, rec.cur.ord))
       IN  [rec EXCEPT !.pc = "fetch", !.cur = e, !.checked = @ \cup {e.symbol}]

\* faulty variant of OnSymbolError: a failed position fetch counts as
\* "no position" and the closure starts
OnSymbolErrorCloses(rec, ops) == [rec EXCEPT !.pc = "trades"]

\* the inner catch of checkPositions (lines 164-168): log and continue
OnSymbolError(rec, ops) == Continue(rec, ops)

\* the catch of handlePositionClosed (lines 237-239): log and return
OnCloseError(rec, ops) == Continue(rec, ops)

(***************************************************************************)
(* Actions of PositionService                                              *)
(***************************************************************************)
LowestIdle(c) == cyc[c].pc = "idle" /\ \A d \in Cycles : cyc[d].pc = "idle" => c <= d

addOpenPosition(s) ==
  /\ adds < MaxAdds
  /\ adds' = adds + 1
  /\ openPositions' = MapSet(openPositions, s, adds + 1, adds + 1)
  /\ UNCHANGED <<ordVars, msgVars, reqSide, dryRun, closedPositions, monitoringInterval, timers, cyc, polls>>

removeOpenPosition(s) ==
  /\ s \in SymbolsOf(openPositions)
  /\ openPositions' = MapDelete(openPositions, s)
  /\ UNCHANGED <<ordVars, msgVars, reqSide, dryRun, closedPositions, monitoringInterval, timers, cyc, adds, polls>>

resetDailyStatistics ==
  /\ closedPositions # <<>>
  /\ closedPositions' = <<>>
  /\ UNCHANGED <<ordVars, msgVars, reqSide, dryRun, openPositions, monitoringInterval, timers, cyc, adds, polls>>

\* faulty variant of startMonitoring: the handle is set but no timer is armed
startMonitoringNoTimer ==
  /\ monitoringInterval' = TRUE
  /\ UNCHANGED <<ordVars, msgVars, reqSide, dryRun, openPositions, closedPositions, cyc, adds,
                 polls, timers>>

startMonitoring ==
  /\ IF monitoringInterval
       THEN UNCHANGED <<monitoringInterval, timers>>
       ELSE monitoringInterval' = TRUE /\ timers' = timers + 1
  /\ UNCHANGED <<ordVars, msgVars, reqSide, dryRun, openPositions, closedPositions, cyc, adds, polls>>

\* faulty variant of stopMonitoring: the handle is forgotten, the timer not cleared
stopMonitoringNoClear ==
  /\ monitoringInterval
  /\ monitoringInterval' = FALSE
  /\ UNCHANGED <<ordVars, msgVars, reqSide, dryRun, openPositions, closedPositions, cyc, adds,
                 polls, timers>>

stopMonitoring ==
  /\ monitoringInterval
  /\ monitoringInterval' = FALSE
  /\ timers' = timers - 1
  /\ UNCHANGED <<ordVars, msgVars, reqSide, dryRun, openPositions, closedPositions, cyc, adds, polls>>

\* the interval timer fires and its callback calls checkPositions
TimerTick(c) ==
  /\ timers > 0
  /\ polls < MaxPolls
  /\ LowestIdle(c)
  /\ polls' = polls + 1
  /\ cyc' = [cyc EXCEPT ![c] =
       IF openPositions = {} THEN Finish(IdleCyc, openPositions)
       ELSE Continue([IdleCyc EXCEPT !.startSet = SymbolsOf(openPositions)], openPositions)]
  /\ UNCHANGED <<ordVars, msgVars, reqSide, dryRun, openPositions, closedPositions, monitoringInterval, timers,
                 adds>>

\* getOpenPositions(symbol) answers and holds no position of non-zero size
\* for the symbol: handlePositionClosed awaits getTradeHistory
FetchZero(c) ==
  /\ cyc[c].pc = "fetch"
  /\ cyc' = [cyc EXCEPT ![c] = [@ EXCEPT !.pc = "trades"]]
  /\ UNCHANGED <<ordVars, msgVars, reqSide, dryRun, openPositions, closedPositions, monitoringInterval, timers,
                 adds, polls>>

\* updatePositionData: reads the tracked object and the exchange's figure and
\* logs it; the Map and the tracked object are not written
updatePositionData(ops, s, unRealizedProfit) == ops

\* getOpenPositions(symbol) answers with a position of non-zero size:
\* updatePositionData(symbol, exchangePosition) is called
FetchOpen(c) ==
  /\ cyc[c].pc = "fetch"
  /\ \E u \in {-2, 5} :      \* exchangePosition.unRealizedProfit
       cyc' = [cyc EXCEPT ![c] = [@ EXCEPT !.pc = "update", !.exchangePosition = <<u>>]]
  /\ UNCHANGED <<ordVars, msgVars, reqSide, dryRun, openPositions, closedPositions,
                 monitoringInterval, timers, adds, polls>>

\* updatePositionData has run and the loop goes on
UpdateDone(c) ==
  /\ cyc[c].pc = "update"
  /\ openPositions' = updatePositionData(openPositions, cyc[c].cur.symbol,
                                          cyc[c].exchangePosition[1])
  /\ cyc' = [cyc EXCEPT ![c] = Continue([@ EXCEPT !.exchangePosition = Absent], openPositions')]
  /\ UNCHANGED <<ordVars, msgVars, reqSide, dryRun, closedPositions, monitoringInterval, timers,
                 adds, polls>>

FetchFail(c) ==
  /\ cyc[c].pc = "fetch"
  /\ cyc' = [cyc EXCEPT ![c] = OnSymbolError(@, openPositions)]
  /\ UNCHANGED <<ordVars, msgVars, reqSide, dryRun, openPositions, closedPositions, monitoringInterval, timers,
                 adds, polls>>

\* getTradeHistory answers: the record is appended, the symbol deleted, and
\* the notification sent unless dryRun
TradesOk(c) ==
  /\ cyc[c].pc = "trades"
  /\ closedPositions' = addClosedPosition(closedPositions,
                                          [symbol |-> cyc[c].cur.symbol, id |-> cyc[c].cur.id])
  /\ openPositions' = MapDelete(openPositions, cyc[c].cur.symbol)
  /\ cyc' = [cyc EXCEPT ![c] =
       IF dryRun THEN Continue(@, openPositions') ELSE [@ EXCEPT !.pc = "notify"]]
  /\ UNCHANGED <<ordVars, msgVars, reqSide, dryRun, monitoringInterval, timers, adds, polls>>

TradesFail(c) ==
  /\ cyc[c].pc = "trades"
  /\ cyc' = [cyc EXCEPT ![c] = OnCloseError(@, openPositions)]
  /\ UNCHANGED <<ordVars, msgVars, reqSide, dryRun, openPositions, closedPositions, monitoringInterval, timers,
                 adds, polls>>

NotifyOk(c) ==
  /\ cyc[c].pc = "notify"
  /\ cyc' = [cyc EXCEPT ![c] = Continue(@, openPositions)]
  /\ UNCHANGED <<ordVars, msgVars, reqSide, dryRun, openPositions, closedPositions, monitoringInterval, timers,
                 adds, polls>>

NotifyFail(c) ==
  /\ cyc[c].pc = "notify"
  /\ cyc' = [cyc EXCEPT ![c] = OnCloseError(@, openPositions)]
  /\ UNCHANGED <<ordVars, msgVars, reqSide, dryRun, openPositions, closedPositions, monitoringInterval, timers,
                 adds, polls>>

\* the timer callback's await returns
Retire(c) ==
  /\ cyc[c].pc = "done"
  /\ cyc' = [cyc EXCEPT ![c] = IdleCyc]
  /\ UNCHANGED <<ordVars, msgVars, reqSide, dryRun, openPositions, closedPositions, monitoringInterval, timers,
                 adds, polls>>

CycStep(c) ==
  \/ TimerTick(c) \/ FetchZero(c) \/ FetchOpen(c) \/ UpdateDone(c) \/ FetchFail(c)
  \/ TradesOk(c) \/ TradesFail(c)
  \/ NotifyOk(c) \/ NotifyFail(c) \/ Retire(c)

NextPos ==
  \/ \E s \in Symbols : addOpenPosition(s) \/ removeOpenPosition(s)
  \/ resetDailyStatistics \/ startMonitoring \/ stopMonitoring
  \/ \E c \in Cycles : CycStep(c)
SpecPos == InitPos /\ [][NextPos]_vars

(***************************************************************************)
(* The reconciler left running: the interval timer fires for ever and the  *)
(* exchange holds no position for any tracked symbol                       *)
(***************************************************************************)
\* the interval timer fires, any number of times, and its callback calls
\* checkPositions
TimerFires(c) ==
  /\ timers > 0
  /\ LowestIdle(c)
  /\ cyc' = [cyc EXCEPT ![c] =
       IF openPositions = {} THEN Finish(IdleCyc, openPositions)
       ELSE Continue([IdleCyc EXCEPT !.startSet = SymbolsOf(openPositions)], openPositions)]
  /\ UNCHANGED <<ordVars, msgVars, reqSide, dryRun, openPositions, closedPositions,
                 monitoringInterval, timers, adds, polls>>

CycStepLive(c) ==
  \/ FetchZero(c) \/ FetchFail(c) \/ TradesOk(c) \/ TradesFail(c)
  \/ NotifyOk(c) \/ NotifyFail(c) \/ Retire(c)

\* positions are opened for symbols not tracked at the moment, one per symbol
NextLive ==
  \/ \E s \in Symbols : /\ s \notin SymbolsOf(openPositions)
                         /\ adds < Cardinality(Symbols)
                         /\ addOpenPosition(s)
  \/ startMonitoring
  \/ \E c \in Cycles : TimerFires(c) \/ CycStepLive(c)

\* setInterval keeps firing while monitoring runs; every await of a cycle
\* settles; and a fetch that is tried again and again for a symbol succeeds
\* in the end (failures are transient)
FairLive ==
  /\ WF_vars(\E c \in Cycles : TimerFires(c))
  /\ \A c \in Cycles :
       /\ WF_vars(CycStepLive(c))
       /\ \A s \in Symbols :
            /\ SF_vars(FetchZero(c) /\ cyc[c].cur.symbol = s)
            /\ SF_vars(TradesOk(c) /\ cyc[c].cur.symbol = s)

SpecLive == InitPos /\ [][NextLive]_vars /\ FairLive


(***************************************************************************)
(* Properties of the signed-request pipeline                               *)
(***************************************************************************)
Settled(r) == rq[r].pc = "done"
Failed(r) == rq[r].failure # NoErr

\* C1: every value getNonce returns is strictly greater than every value it
\* returned before, whatever the clock and serverTimeOffset did in between.
\* (Refuted: a syncServerTime that lowers serverTimeOffset by more than the
\* time elapsed makes the next nonce smaller than the last one.)
C1_NoncesStrictlyIncreasing ==
  \A i \in 1..Len(nonceLog) : \A j \in 1..Len(nonceLog) :
    i < j => NonceLess(nonceLog[i], nonceLog[j])

\* C3: when a signedRequest is invoked at the instant the previous one
\* returned, its HTTP dispatch comes at least minRequestInterval after the
\* HTTP dispatch of the previous one.
\* (Refuted: the gate spaces the lastRequestTime stamps, taken before signing;
\* a first call that signs slower than the second is dispatched later in its
\* window.)
C3_DispatchSpacing ==
  \A r \in Reqs :
    (rq[r].afterPrev /\ prev.dispatched /\ rq[r].nDispatch = 1)
      => rq[r].dispatchAt - prev.dispatchAt >= minRequestInterval

\* C4: once handleApiError has been given a desync error (code -1000 or
\* -1021) it has started exactly one forced syncServerTime, and signedRequest
\* has settled only after that probe completed.
\* (Refuted by the second class definition, which resyncs nothing.)
C4_OneForcedProbe ==
  \A r \in Reqs :
    IsDesync(rq[r].raised) =>
      /\ rq[r].nForced = 1
      /\ Settled(r) => rq[r].nForcedDone = 1

\* C7: every failure inside signedRequest has been passed to handleApiError
\* exactly once, unchanged, by the time signedRequest settles, and
\* signedRequest then rejects; it never resolves after a failure.
C7_FailuresHandledOnce ==
  \A r \in Reqs :
    /\ rq[r].nHandled <= 1
    /\ Failed(r) => /\ rq[r].nHandled = 1
                    /\ rq[r].raised = rq[r].failure
                    /\ rq[r].outcome # "resolved"
                    /\ Settled(r) => rq[r].outcome = "rejected" /\ rq[r].thrown # NoErr
    /\ rq[r].outcome = "resolved" => ~Failed(r) /\ rq[r].nHandled = 0

\* witness of C7: a failed invocation that went through the handler and was
\* rejected
C7_Witness ==
  \E r \in Reqs : Settled(r) /\ Failed(r) /\ rq[r].nHandled = 1
                  /\ rq[r].outcome = "rejected" /\ rq[r].failure.src = "http"

\* C8: when the probe of ensureTimeSync or the signature creation fails,
\* signedRequest rejects with that very error, and neither a cooldown nor a
\* further time probe happens.
\* (Refuted: a probe that fails with an HTTP answer is classified like any
\* exchange error.)
C8_BubblesUnmodified ==
  \A r \in Reqs :
    rq[r].failure.src \in {"probe", "sign"} =>
      /\ rq[r].nCooldown = 0
      /\ rq[r].nForced = 0
      /\ Settled(r) => rq[r].thrown = rq[r].failure

\* C9 as stated: a settled invocation has drawn exactly one nonce and made at
\* most one dispatch.
\* (Refuted: an invocation whose time-sync probe fails draws none.)
C9_ExactlyOneNonce ==
  \A r \in Reqs : Settled(r) => rq[r].nNonce = 1 /\ rq[r].nDispatch <= 1

\* C9 amended: an invocation draws at most one nonce, exactly one unless the
\* probe of ensureTimeSync failed (then none), and makes at most one dispatch,
\* none without its nonce; after a failure it only goes on to reject, and
\* nothing is dispatched after the failure.
C9_AtMostOneNonce ==
  \A r \in Reqs :
    /\ rq[r].nNonce <= 1
    /\ rq[r].nDispatch <= 1
    /\ rq[r].nDispatch = 1 => rq[r].nNonce = 1
    /\ Settled(r) => (rq[r].nNonce = 0 <=> rq[r].failure.src = "probe")
    /\ Failed(r) => /\ rq[r].pc \in {"resync", "cooldown", "done"}
                    /\ rq[r].failure.src # "http" => rq[r].nDispatch = 0

\* witness of C9: a rejected invocation that drew its nonce and dispatched once
C9_Witness ==
  \E r \in Reqs : Settled(r) /\ rq[r].outcome = "rejected" /\ IsDesync(rq[r].raised)
                  /\ rq[r].nNonce = 1 /\ rq[r].nDispatch = 1

\* C10 as stated: an error with code -429 or HTTP status 429 makes
\* handleApiError wait the cooldown exactly once and throw 'Rate limit
\* exceeded', the caller seeing it no sooner than the cooldown after the
\* failure.
\* (Refuted: HTTP status 429 with code -1021 takes the desync branch.)
RateLimitOutcome(r) ==
  /\ rq[r].nCooldown = 1
  /\ rq[r].nForced = 0
  /\ rq[r].pc \in {"cooldown", "done"}
  /\ Settled(r) => /\ rq[r].thrown = NewErr("Rate limit exceeded")
                   /\ rq[r].settledAt - rq[r].failedAt >= Cooldown

C10_CooldownOn429 ==
  \A r \in Reqs : IsRateLimited(rq[r].raised) => RateLimitOutcome(r)

\* C10 amended: the same, for an error with code -429 or HTTP status 429
\* whose code is not a desync code (-1000, -1021): those are classified first.
C10_CooldownUnlessDesync ==
  \A r \in Reqs :
    (IsRateLimited(rq[r].raised) /\ ~IsDesync(rq[r].raised)) => RateLimitOutcome(r)

\* witness of C10: a rate-limited request rejected after its cooldown
C10_Witness ==
  \E r \in Reqs : Settled(r) /\ IsRateLimited(rq[r].raised) /\ rq[r].nCooldown = 1
                  /\ rq[r].thrown = NewErr("Rate limit exceeded")

\* C11: the steps of one signedRequest invocation happen in the order
\* time-sync check (its probe completed), rate-gate wait, nonce, signature,
\* dispatch, response: a nonce is drawn only in a step that finds the time
\* sync fresh or completes its probe and finds the gate open or its timer
\* fired; a dispatch is made only by an invocation that holds its nonce and
\* whose signature has just been made; it resolves only from its dispatch.
C11_StepOrder ==
  [][\A r \in Reqs :
       /\ rq'[r].nNonce > rq[r].nNonce =>
            /\ rq'[r].pc = "sign" /\ rq[r].nDispatch = 0
            /\ \/ /\ rq[r].pc = "idle"
                  /\ ~NeedsSync(variant, now, lastTimeSyncAt)
                  /\ now - lastRequestTime >= minRequestInterval
               \/ /\ rq[r].pc = "probe"
                  /\ lastTimeSyncAt' = now
                  /\ now - lastRequestTime >= minRequestInterval
               \/ /\ rq[r].pc = "gatewait"
                  /\ now >= rq[r].wakeAt
       /\ rq'[r].nDispatch > rq[r].nDispatch =>
            rq[r].pc = "sign" /\ rq[r].nNonce = 1 /\ rq'[r].pc = "http"
       /\ (rq'[r].outcome = "resolved" /\ rq[r].outcome # "resolved") =>
            rq[r].pc = "http" /\ rq[r].nDispatch = 1 /\ rq[r].nNonce = 1
       /\ rq[r].pc \in {"probe", "gatewait"} => rq[r].nNonce = 0 /\ rq[r].nDispatch = 0
    ]_vars

\* witness of C11: an invocation that waited at the rate gate, then drew its
\* nonce, signed, dispatched and resolved, on an instance whose clock is synced
C11_Witness ==
  \E r \in Reqs : Settled(r) /\ rq[r].outcome = "resolved" /\ rq[r].wakeAt > 0
                  /\ rq[r].nNonce = 1 /\ rq[r].nDispatch = 1
                  /\ variant = 1 /\ lastTimeSyncAt > 0

\* C12: ensureTimeSync, at the entry of a signedRequest of the first class
\* definition, starts a syncServerTime probe exactly when the local time
\* minus lastTimeSyncAt exceeds timeSyncInterval; otherwise it starts no
\* probe and leaves serverTimeOffset and lastTimeSyncAt unchanged.
C12_SyncExactlyWhenStale ==
  [][\A r \in Reqs :
       (variant = 1 /\ rq[r].pc = "idle" /\ rq'[r].pc # "idle") =>
         IF now - lastTimeSyncAt > timeSyncInterval
           THEN rq'[r].pc = "probe" /\ rq'[r].nProbe = 1 /\ rq'[r].nNonce = 0
           ELSE /\ rq'[r].pc # "probe" /\ rq'[r].nProbe = 0
                /\ serverTimeOffset' = serverTimeOffset
                /\ lastTimeSyncAt' = lastTimeSyncAt
    ]_vars

\* witness of C12: after an earlier sync, an invocation entered signedRequest
\* exactly timeSyncInterval or less after it and started no probe
C12_Witness ==
  \E r \in Reqs : variant = 1 /\ lastTimeSyncAt > 0 /\ prev.valid
                  /\ rq[r].pc \in {"gatewait", "sign"} /\ rq[r].nProbe = 0

\* C13: a syncServerTime that succeeds, sent at local time T0, answered at
\* T1 with exchange time Ts, leaves serverTimeOffset = Ts - floor((T0+T1)/2)
\* and lastTimeSyncAt = the local time, whatever the offset was before; and
\* getServerTime is the local time plus the current offset: the nonce drawn
\* in a step carries the local time plus the offset in force after that step.
C13_OffsetFromProbe ==
  [][/\ \A r \in Reqs :
          rq'[r].nSync > rq[r].nSync =>
            /\ serverTimeOffset' = rq'[r].Ts - ((rq[r].T0 + now) \div 2)
            /\ lastTimeSyncAt' = now
     /\ (variant = 1 /\ Len(nonceLog') > Len(nonceLog)) =>
          nonceLog'[Len(nonceLog')].ms = now + serverTimeOffset'
    ]_vars

\* witness of C13: an invocation whose probe and whose forced resync both
\* succeeded, the second overwriting the first's offset with a non-zero one
C13_Witness ==
  \E r \in Reqs : rq[r].nSync = 2 /\ serverTimeOffset # 0 /\ lastTimeSyncAt > rq[r].T0 + 1

\* C14: when the probe of syncServerTime fails, syncServerTime rejects with
\* the probe's error (signedRequest's catch receives that very error) and
\* serverTimeOffset and lastTimeSyncAt keep their values; the same holds for
\* the forced syncServerTime of handleApiError.
C14_FailedProbeKeepsOffset ==
  [][\A r \in Reqs :
       /\ (rq[r].pc = "probe" /\ rq'[r].nSync = rq[r].nSync /\ rq'[r].pc # "probe") =>
            /\ rq'[r].failure \in AxiosErrs("probe")
            /\ rq'[r].raised = rq'[r].failure
            /\ serverTimeOffset' = serverTimeOffset
            /\ lastTimeSyncAt' = lastTimeSyncAt
       /\ (rq[r].pc = "resync" /\ rq'[r].nSync = rq[r].nSync /\ rq'[r].pc # "resync") =>
            /\ serverTimeOffset' = serverTimeOffset
            /\ lastTimeSyncAt' = lastTimeSyncAt
    ]_vars

\* witness of C14: a probe failed on an instance that holds a non-zero offset
\* from an earlier sync
C14_Witness ==
  \E r \in Reqs : rq[r].failure.src = "probe" /\ rq[r].nSync = 0
                  /\ serverTimeOffset # 0 /\ lastTimeSyncAt > 0

\* C15: once the offset has been computed, it is recomputed in every window
\* of timeSyncInterval, signed requests or not: at any time the last sync is
\* no older than timeSyncInterval unless a probe is in flight; and a desync
\* error starts a forced sync at once (first class definition; the second
\* one's handling of desync errors is the subject of C4).
\* (Refuted: only the entry of signedRequest checks the age of the offset,
\* no timer does, so the offset ages while no signed request is issued.)
C15_OffsetNeverStale ==
  /\ (lastTimeSyncAt > 0 /\ \A r \in Reqs : rq[r].pc \notin {"probe", "resync"})
       => now - lastTimeSyncAt <= timeSyncInterval
  /\ \A r \in Reqs : (variant = 1 /\ IsDesync(rq[r].raised)) => rq[r].nForced = 1

\* C16: getNonce returns nowMs * 1,000,000 + seq, nowMs being the
\* offset-corrected time (the local time in the second class definition);
\* seq is 0 for the first call in a millisecond, one more for each further
\* call in the same millisecond, and 0 again when nowMs differs from the
\* previous call's.
\* (Refuted: the sum is a double above 2^60, so a seq below NonceUlp / 2 is
\* rounded away and the value returned is nowMs * 1,000,000.)
C16_NonceIsMsTimesMillionPlusSeq ==
  [][Len(nonceLog') > Len(nonceLog) =>
       LET nowMs == NonceClock(variant, now, serverTimeOffset')
           seq == IF nowMs = _lastMs THEN _i + 1 ELSE 0
       IN  /\ _i' = seq
           /\ _lastMs' = nowMs
           /\ nonceLog'[Len(nonceLog')] = [ms |-> nowMs, lo |-> seq]
    ]_vars

\* C17: the object the caller passed as params has the keys and values it
\* had at the call, in the same order, at every moment of the signedRequest
\* and after it: no nonce, user, signer or signature is added to it.
C17_ParamsUnchanged ==
  wire.pc # "idle" => wire.heap[1] = wire.given

\* witness of C17: a request of the second class definition was sent with a
\* body, that object holding the caller's parameters and the four added ones
C17_Witness ==
  /\ variant = 2 /\ wire.pc = "sent" /\ wire.hasBody /\ wire.given # <<>>
  /\ Len(wire.body) = Len(wire.given) + 4
  /\ wire.heap[1] = wire.given

\* C18: a request handed to axios carries the signed parameters in the URL
\* query string, and no body, when the method is GET or DELETE; in the
\* request body, and no query string, when the method is POST or PUT.
\* (Refuted: the first class definition always appends the parameters to
\* the URL and never sets a body.)
C18_PlacementByMethod ==
  wire.pc = "sent" =>
    IF wire.method \in {"GET", "DELETE"}
      THEN /\ ~wire.hasBody
           /\ {"nonce", "user", "signer", "signature"} \subseteq ObjKeys(wire.query)
      ELSE /\ wire.hasBody
           /\ {"nonce", "user", "signer", "signature"} \subseteq ObjKeys(wire.body)
           /\ wire.query = <<>>

\* C19: in a request handed to axios, what is transmitted ahead of the
\* signature is exactly the string the signature was computed over, and it
\* is the caller's parameters in insertion order followed by nonce, user
\* and signer, the nonce being the one drawn for this invocation.
\* (Refuted: the second class definition signs the parameters sorted by
\* key and transmits them in insertion order, URL-encoded in a query.)
C19_SentIsWhatWasSigned ==
  wire.pc = "sent" =>
    LET sent == IF wire.hasBody THEN wire.body ELSE wire.query
        ahead == SubSeq(sent, 1, Len(sent) - 1)
    IN  /\ Len(sent) > 0
        /\ sent[Len(sent)] = Pair("signature", SigText(ahead))
        /\ ahead = wire.given \o AuthPairs(wire.nonce)
        /\ nonceLog[Len(nonceLog)] = wire.nonce

\* an exchange error whose message says the leverage needs no change
SaysNoChange(e) == e.kind = "resp" /\ MentionsNoChange(e.msg)

\* C20 as stated: setLeverage returns success when its signed call failed
\* with an exchange error saying the leverage needs no change, and rethrows
\* every other failure.
\* (Refuted: when that answer has HTTP status 429, or a desync code and the
\* forced sync fails, the error signedRequest rejects with no longer quotes
\* the exchange's message.)
C20_NoChangeIsSuccess ==
  (lev.pc = "done" /\ lev.err # NoLevErr) =>
    lev.result = IF SaysNoChange(lev.err) THEN "success" ELSE "rethrown"

\* C20 amended: the same, provided the error is not rate-limited (code -429
\* or HTTP status 429, unless a desync code) and is not a desync error of the
\* first class definition whose forced sync failed; in those cases, as for
\* every other failure, setLeverage rethrows.  A signed call that resolves
\* makes setLeverage return the response.
C20_NoChangeIsSuccessIfQuoted ==
  lev.pc = "done" =>
    IF lev.err = NoLevErr THEN lev.result = "response"
    ELSE LET desync == lev.err.code = -1021 \/ (variant = 1 /\ lev.err.code = -1000)
             limited == ~desync /\ (lev.err.code = -429 \/ lev.err.status = 429)
             lost == limited \/ (variant = 1 /\ desync /\ ~lev.syncOk)
         IN  lev.result = IF SaysNoChange(lev.err) /\ ~lost THEN "success" ELSE "rethrown"

\* witness of C20: a generic exchange error saying no change is needed was
\* turned into success
C20_Witness ==
  /\ lev.pc = "done" /\ lev.result = "success"
  /\ lev.err.status = 400 /\ lev.err.code = -1
  /\ lev.err.msg = <<"No need to change leverage", ".">>


\* C21: setTakeProfit and setStopLoss each hand exactly one conditional order
\* to signedRequest; its side is the opposite of the entry side (SELL for a
\* BUY entry, BUY for a SELL entry), its limit price is its trigger price
\* (price = stopPrice, the text of the price given), and its type is
\* TAKE_PROFIT for setTakeProfit and STOP for setStopLoss.
C21_BracketOpposesEntry ==
  brk.pc \in {"await", "done"} =>
    /\ Len(brk.submitted) = 1
    /\ LET o == brk.submitted[1] IN
         /\ brk.entrySide = "BUY" => o.side = "SELL"
         /\ brk.entrySide = "SELL" => o.side = "BUY"
         /\ o.price = o.stopPrice
         /\ o.price = toString(brk.price)
         /\ brk.method = "setTakeProfit" => o.type = "TAKE_PROFIT"
         /\ brk.method = "setStopLoss" => o.type = "STOP"

\* a stop-loss for a SELL entry has been submitted and the call has returned
C21_Witness ==
  /\ brk.pc = "done" /\ brk.result = "returned"
  /\ brk.method = "setStopLoss" /\ brk.entrySide = "SELL"
  /\ Len(brk.submitted) = 1 /\ brk.submitted[1].side = "BUY"

\* C30: handleApiError classifies by fixed precedence: an error without an
\* exchange response is rethrown as it is; otherwise code -1000 / -1021 is a
\* resync outcome (one forced time probe); otherwise code -429 or HTTP status
\* 429 is rate-limited (one 1 s wait); otherwise -2019 is insufficient margin;
\* otherwise -4131 is order rejected; otherwise a generic API error.  Only the
\* resync and the rate-limited outcome have a side effect, and handleApiError
\* always throws: the invocation it was called for never resolves.
C30_ClassifiedByPrecedence ==
  \A r \in Reqs :
    rq[r].nHandled > 0 =>
      LET e == rq[r].raised
          plain(err) == rq[r].nForced = 0 /\ rq[r].nCooldown = 0 /\ Settled(r)
                        /\ rq[r].thrown = err
      IN  /\ rq[r].outcome # "resolved"
          /\ rq[r].nHandled = 1
          /\ IF e.kind # "resp" THEN plain(e)
             ELSE IF IsDesync(e)
               THEN /\ rq[r].nForced = 1 /\ rq[r].nCooldown = 0
                    /\ Settled(r) => rq[r].thrown = NewErr("Time sync failed")
             ELSE IF IsRateLimited(e)
               THEN /\ rq[r].nCooldown = 1 /\ rq[r].nForced = 0
                    /\ Settled(r) => rq[r].thrown = NewErr("Rate limit exceeded")
             ELSE IF e.code = -2019 THEN plain(NewErr("Insufficient margin"))
             ELSE IF e.code = -4131 THEN plain(NewErr("Market order rejected"))
             ELSE plain(NewErr("API Error"))

(***************************************************************************)
(* Properties of the position reconciler                                   *)
(***************************************************************************)
InFlight(c) == cyc[c].pc \in {"fetch", "update", "trades", "notify"}
Finished(c) == cyc[c].pc = "done"

\* C2: a position added by addOpenPosition gets at most one ClosedPosition
\* record, however checkPositions cycles interleave.
\* (Refuted: two overlapping cycles both see zero size and both append.)
C2_ClosedExactlyOnce ==
  \A i \in 1..Len(closedPositions) : \A j \in 1..Len(closedPositions) :
    i # j => closedPositions[i].id # closedPositions[j].id

\* C5: at most one checkPositions cycle is in flight at any time, and at most
\* one interval timer is live.
\* (Refuted: setInterval fires while the previous callback still awaits.)
C5_OneCycleInFlight ==
  /\ Cardinality({c \in Cycles : InFlight(c)}) <= 1
  /\ timers <= 1

\* C6: a finished cycle has resolved (checkPositions never rejects) and has
\* checked every symbol that was tracked when it started, whatever errors the
\* checks and closures of other symbols threw.
\* (Refuted: a symbol that an overlapping cycle closes and deletes before the
\* loop reaches it is not visited by the Map iterator.)
C6_AllStartSymbolsChecked ==
  \A c \in Cycles :
    /\ cyc[c].outcome # "rejected"
    /\ Finished(c) => cyc[c].outcome = "resolved" /\ cyc[c].startSet \subseteq cyc[c].checked

\* C22: when a cycle has obtained a successful exchange response reporting no
\* non-zero position for a tracked symbol, the entry it was checking is no
\* longer in openPositions when the cycle finishes, whatever became of the
\* trade-history lookup and of the notification.  Stated for the symbol whose
\* closure is the last thing the cycle does.
C22_ZeroSizeRemoved ==
  [][\A c \in Cycles :
       (cyc[c].pc \in {"trades", "notify"} /\ cyc'[c].pc = "done") =>
         ~(\E o \in openPositions' : o.symbol = cyc[c].cur.symbol /\ o.id = cyc[c].cur.id)]_vars

\* C23: when a poll finds a non-zero exchange position for a tracked symbol,
\* the symbol stays in openPositions, no ClosedPosition is appended, and the
\* tracked entry's unrealized-P&L figure becomes the exchange-reported value.
C23_PnlRefreshedInPlace ==
  [][\A c \in Cycles :
       (cyc[c].pc = "update" /\ cyc'[c].pc # "update") =>
         LET s == cyc[c].cur.symbol
             u == cyc[c].exchangePosition[1]
         IN  /\ closedPositions' = closedPositions
             /\ s \in SymbolsOf(openPositions) =>
                  \E e \in openPositions' : e.symbol = s /\ e.unrealisedPnl = <<u>>]_vars

\* C24: the closed-position history only grows: under any sequence of
\* PositionService operations its length never decreases and a record once
\* appended is never changed or removed.
C24_HistoryOnlyGrows ==
  [][/\ Len(closedPositions') >= Len(closedPositions)
     /\ \A i \in 1..Len(closedPositions) : closedPositions'[i] = closedPositions[i]]_vars

\* C24 as amended: the history changes only by one record being appended at
\* its end, or by resetDailyStatistics replacing it with the empty list (no
\* step of a poll cycle does that); records are never changed in place nor
\* removed one by one.
C24_GrowsOrIsReset ==
  [][\/ closedPositions' = closedPositions
     \/ /\ Len(closedPositions') = Len(closedPositions) + 1
        /\ \A i \in 1..Len(closedPositions) : closedPositions'[i] = closedPositions[i]
     \/ /\ closedPositions' = <<>>
        /\ UNCHANGED <<openPositions, cyc, monitoringInterval, timers>>]_vars

\* two positions have been closed one after the other
C24_Witness ==
  /\ Len(closedPositions) = 2
  /\ closedPositions[1].id # closedPositions[2].id

\* C26: a step of a poll cycle that checks, refreshes or closes one symbol
\* leaves the openPositions entry of every other symbol as it was (neither
\* removed, added nor modified) and appends no ClosedPosition for another
\* symbol.
C26_OtherSymbolsUntouched ==
  [][\A c \in Cycles :
       (InFlight(c) /\ cyc'[c] # cyc[c]) =>
         LET s == cyc[c].cur.symbol IN
         /\ {e \in openPositions : e.symbol # s} = {e \in openPositions' : e.symbol # s}
         /\ \/ closedPositions' = closedPositions
            \/ /\ Len(closedPositions') = Len(closedPositions) + 1
               /\ closedPositions'[Len(closedPositions')].symbol = s
               /\ \A i \in 1..Len(closedPositions) :
                    closedPositions'[i] = closedPositions[i]]_vars

\* one symbol has been closed by a cycle still in flight while another
\* symbol, added before the cycle closed the first, is still tracked
C26_Witness ==
  /\ Len(closedPositions) = 1
  /\ \E c \in Cycles : InFlight(c) /\ closedPositions[1].symbol \in cyc[c].checked
  /\ \E e \in openPositions : e.symbol # closedPositions[1].symbol

\* C27: once stopMonitoring has returned, no checkPositions cycle is started
\* until startMonitoring is called again (a cycle starts only while the timer
\* handle is set); stopMonitoring itself leaves the cycles in flight, the
\* table and the history as they are, and a cycle in flight is not cancelled:
\* it leaves the flight only by finishing.
C27_StopOnlyPreventsTicks ==
  [][/\ \A c \in Cycles : (cyc[c].pc = "idle" /\ cyc'[c].pc # "idle") => monitoringInterval
     /\ (monitoringInterval /\ ~monitoringInterval') =>
          /\ timers' = 0
          /\ UNCHANGED <<cyc, openPositions, closedPositions>>
     /\ \A c \in Cycles : InFlight(c) => (InFlight(c)' \/ Finished(c)')]_vars

\* monitoring has been stopped while a cycle awaits the trade history of a
\* position it found closed: the cycle can still append and remove
C27_Witness ==
  /\ ~monitoringInterval /\ timers = 0
  /\ \E c \in Cycles : /\ cyc[c].pc = "trades"
                        /\ cyc[c].cur \in openPositions
                        /\ ENABLED TradesOk(c)

\* C28: calculatePositionParameters returns a result only when the margin of
\* the final (rounded and clamped) quantity, quantity * entryPrice / leverage,
\* does not exceed balance + 0.001; otherwise, for valid arguments, it throws
\* an 'Insufficient balance' error and returns nothing.
C28_ReturnsOnlyWithinMargin ==
  (calc.pc = "done" /\ calc.balance.n > 0) =>
    LET fits ==
          ~RLess(RAdd(calc.balance, marginTolerance),
                 RDiv(RMul(calc.result.quantity, calc.entryPrice), Rat(calc.leverage, 1)))
    IN  /\ calc.outcome = "returned" => fits
        /\ calc.outcome = "thrown" =>
             calc.error = "Insufficient balance" /\ calc.result = NoResult

\* a minimum quantity the balance cannot carry has made the call throw
C28_Witness ==
  /\ calc.pc = "done" /\ calc.balance.n > 0
  /\ calc.outcome = "thrown" /\ calc.error = "Insufficient balance"
  /\ calc.symbolInfo.minQty.n > 0

\* q is x rounded to a multiple of step: a whole number of steps, less than
\* one step away from x
IsRoundedTo(q, x, step) ==
  /\ RDiv(q, step).d = 1
  /\ RLess(RAbs(RSub(q, x)), step)

\* C29: the quantity calculatePositionParameters returns, when no min/max
\* clamp applied, is positionSize / entryPrice rounded to the symbol's lot
\* step size symbolInfo.stepSize.
C29_QuantityRoundedToStep ==
  (calc.pc = "done" /\ calc.outcome = "returned" /\ ~calc.result.clamped) =>
    IsRoundedTo(calc.result.quantity,
                RDiv(calc.result.positionSize, calc.entryPrice),
                calc.symbolInfo.stepSize)

\* the side a trade was made on, as far as the trade says
TradeIsSell(t) == t.side = "SELL" \/ (t.side = "undefined" /\ t.buyer = "false")
TradeIsBuy(t) == t.side = "BUY" \/ (t.side = "undefined" /\ t.buyer = "true")
OnClosingSide(direction, t) == IF direction = "LONG" THEN TradeIsSell(t) ELSE TradeIsBuy(t)

\* C25: when a position is closed and the fetched history holds a trade on
\* the closing side (a sell for a LONG, a buy for a SHORT), the exit price is
\* the price of the most recent such trade; a trade on the opening side, or
\* an older closing-side trade, is never selected.
C25_ExitFromLatestClosingTrade ==
  sel.pc = "done" =>
    /\ sel.closeTrade # 0 =>
         /\ OnClosingSide(sel.direction, sel.trades[sel.closeTrade])
         /\ \A j \in DOMAIN sel.trades :
              OnClosingSide(sel.direction, sel.trades[j]) =>
                sel.trades[j].time <= sel.trades[sel.closeTrade].time
         /\ sel.exitPrice = parseFloat(sel.trades[sel.closeTrade].price)
    /\ (\E j \in DOMAIN sel.trades : OnClosingSide(sel.direction, sel.trades[j])) =>
         sel.closeTrade # 0

C33_SyncFailedOnlyIfSyncFailed ==
  (lev.pc = "done" /\ lev.err # NoLevErr /\ variant = 1 /\ IsDesync(lev.err)) =>
    IF lev.syncOk
      THEN /\ Includes(lev.thrown, ". Time has been resynced, please retry.")
           /\ ~Includes(lev.thrown, "Time sync failed: ")
      ELSE Includes(lev.thrown, "Time sync failed: ")

\* C34: a ClosedPosition is appended only by a cycle whose getOpenPositions
\* for that symbol answered with no position of non-zero size, together with
\* the removal of that symbol; and a cycle whose position fetch throws leaves
\* openPositions and closedPositions as they are and goes on to the next
\* symbol (or ends) without entering handlePositionClosed.
C34_ClosedOnlyAfterZeroFetch ==
  [][/\ Len(closedPositions') > Len(closedPositions) =>
          \E c \in Cycles :
            /\ cyc[c].pc = "trades"
            /\ closedPositions' = Append(closedPositions,
                                         [symbol |-> cyc[c].cur.symbol, id |-> cyc[c].cur.id])
            /\ openPositions' = MapDelete(openPositions, cyc[c].cur.symbol)
     /\ \A c \in Cycles :
          /\ (cyc'[c].pc = "trades" /\ cyc[c].pc # "trades") =>
                cyc[c].pc = "fetch" /\ cyc'[c].cur = cyc[c].cur /\ ~FetchFail(c)
          /\ FetchFail(c) =>
                /\ openPositions' = openPositions
                /\ closedPositions' = closedPositions
                /\ cyc'[c].pc \in {"fetch", "done"}
                /\ cyc'[c].pc = "fetch" => cyc'[c].cur.ord > cyc[c].cur.ord
    ]_vars

\* witness of C34: a cycle went past its first symbol, which is still
\* tracked, and closed its second symbol after a zero-size answer
C34_Witness ==
  \E c \in Cycles :
    /\ cyc[c].pc = "notify" /\ cyc[c].checked = Symbols
    /\ Len(closedPositions) = 1
    /\ closedPositions[1].symbol = cyc[c].cur.symbol
    /\ SymbolsOf(openPositions) = Symbols \ {cyc[c].cur.symbol}

\* C35: a closure removes only the entry the poll saw closed: when
\* handlePositionClosed appends its ClosedPosition, the record describes the
\* position the cycle took from the iterator, and an entry that
\* addOpenPosition installed for the same symbol during the trade-history
\* await is still in openPositions afterwards.
\* (Refuted: removeOpenPosition deletes by symbol, whatever object is stored.)
C35_ClosureRemovesOnlyObserved ==
  [][\A c \in Cycles :
       (cyc[c].pc = "trades" /\ Len(closedPositions') > Len(closedPositions)
          /\ cyc'[c] # cyc[c]) =>
         /\ closedPositions'[Len(closedPositions')] =
               [symbol |-> cyc[c].cur.symbol, id |-> cyc[c].cur.id]
         /\ \A e \in openPositions :
               (e.symbol = cyc[c].cur.symbol /\ e.id # cyc[c].cur.id) => e \in openPositions'
    ]_vars

\* C36: while monitoring runs and the exchange reports zero size for a
\* tracked symbol, then, position and trade-history fetches succeeding in the
\* end, the symbol is eventually removed from openPositions with a
\* ClosedPosition for it appended; failed fetches only postpone this.
C36_ZeroSizeEventuallyClosed ==
  \A s \in Symbols :
    (monitoringInterval /\ s \in SymbolsOf(openPositions))
      ~> (/\ s \notin SymbolsOf(openPositions)
          /\ \E i \in DOMAIN closedPositions : closedPositions[i].symbol = s)

\* witness of C36: with monitoring running, the one position ever added has
\* been closed and removed, and the cycle that closed it is notifying
C36_Witness ==
  \E c \in Cycles :
    /\ monitoringInterval /\ adds = 1 /\ cyc[c].pc = "notify"
    /\ cyc[c].cur.symbol \notin SymbolsOf(openPositions)
    /\ Len(closedPositions) = 1 /\ closedPositions[1].symbol = cyc[c].cur.symbol

====
